---- MODULE Spec2Model ----
(***************************************************************************)
(* Model of the mutation pipeline: Driver::Run and Driver::AllButOne       *)
(* (lib/Driver.cpp), the FakeModuleLoader of the driver's unit test, and    *)
(* CXXJunkDetector::isJunk with its search visitors.                        *)
(***************************************************************************)
EXTENDS Integers, Sequences, FiniteSets, TLC

(* ---------------------------- bounds ---------------------------------- *)
MaxPaths == 3     \* longest list of bitcode paths in the Config
MaxInstr == 2     \* longest body of the testee function

(* ---------------------------- helpers --------------------------------- *)
Range(s) == {s[i] : i \in 1..Len(s)}

SeqsUpTo(S, n) == UNION {[1..k -> S] : k \in 0..n}

(* ------------------------- source locations --------------------------- *)
\* mull::SourceLocation: null (no debug metadata) or (path, position)
NullLoc == [isNull |-> TRUE, filePath |-> "", offset |-> 0]

Loc(f, o) == [isNull |-> FALSE, filePath |-> f, offset |-> o]

(* ------------------------------- IR ----------------------------------- *)
\* an instruction of the testee function: opcode, debug location, and
\* whether replacing its opcode yields IR the compiler rejects
Instr(o, l, b) == [op |-> o, loc |-> l, ill |-> b]

InstrChoices ==
  { Instr("add", Loc("bar.c", 2), FALSE),
    Instr("add", Loc("bar.c", 5), FALSE),
    Instr("add", NullLoc, FALSE),
    Instr("add", Loc("bar.c", 2), TRUE),
    Instr("ret", NullLoc, FALSE) }

Bodies == SeqsUpTo(InstrChoices, MaxInstr)

PathNames == {"foo", "bar", "baz"}

PathLists == SeqsUpTo(PathNames, MaxPaths)

NullModule == [kind |-> "null", path |-> "", body |-> << >>]

NullObj == 0

VARIABLES
  paths,        \* Cfg.GetBitcodePaths()
  factory,      \* body of the function TestModuleFactory puts in the testee module
  pc,           \* position of Driver::Run
  pathIdx,      \* position of the load loop
  Ctx,          \* Context: the owned modules, handle = index
  InnerCache,   \* Driver::InnerCache: set of (module, object) entries
  heap,         \* object files ever produced: module, code, alive
  tests, ti,    \* TestFinder.findTests() and the loop position
  testees, ei,  \* TestFinder.findTestees(*Test) and the loop position
  points, pi,   \* TestFinder.findMutationPoints(...) and the loop position
  ObjectFiles,  \* the vector handed to the runner
  Mutant,       \* the object compiled in the current iteration
  runLog,       \* calls of Runner.runTest, in order
  events        \* steps taken for the current mutation point

vars == << paths, factory, pc, pathIdx, Ctx, InnerCache, heap, tests, ti,
           testees, ei, points, pi, ObjectFiles, Mutant, runLog, events >>

\* state of the junk detector and of the calls made on it
VARIABLES
  loader,       \* what ASTUnit::LoadFromCommandLine yields for each source file
  astUnits,     \* CXXJunkDetector::astUnits
  mutex,        \* CXXJunkDetector::mutex: 0 or the thread that holds it
  tpc,          \* position of each thread in isJunk / findAST
  tpoint,       \* the point of each thread's current or last call
  tast,         \* the AST findAST gave each thread
  tres,         \* the result of each thread's last call
  parses,       \* number of LoadFromCommandLine calls per source file
  calls,        \* number of calls each thread has started
  nextId,       \* identity of the next ASTUnit object
  jabort        \* an assertion of the detector has failed

tvars == << loader, astUnits, mutex, tpc, tpoint, tast, tres, parses, calls,
            nextId, jabort >>

\* one call of isJunk on a given AST, and the range its visitor retains
VARIABLES
  spoint,       \* the mutation point
  sast,         \* the AST findAST returns
  sres,         \* the value of isJunk
  sRange        \* SearchInstructionVisitor::sourceRange after the traversal

svars == << spoint, sast, sres, sRange >>

\* the argument loop of findAST
VARIABLES
  cdb,          \* compdb and compilationFlags of the detector
  argsForFile,  \* commandLineArguments(sourceFile)
  it,           \* the iterator, as an index; Len + 1 is end()
  args,         \* the vector handed to LoadFromCommandLine
  apc           \* position in findAST

avars == << cdb, argsForFile, it, args, apc >>

jvars == << tvars, svars, avars >>

allvars == << vars, jvars >>

\* no junk detector is running
ThreadsOff ==
  /\ loader = << >> /\ astUnits = << >> /\ mutex = 0
  /\ tpc = << >> /\ tpoint = << >> /\ tast = << >> /\ tres = << >>
  /\ parses = << >> /\ calls = << >> /\ nextId = 1 /\ jabort = FALSE

SearchOff ==
  /\ spoint = << >> /\ sast = << >> /\ sres = "off" /\ sRange = << >>

ArgsOff ==
  /\ cdb = << >> /\ argsForFile = << >> /\ it = 0 /\ args = << >>
  /\ apc = "off"

\* Driver::Run is not running
DriverOff ==
  /\ paths = << >> /\ factory = << >> /\ pc = "off" /\ pathIdx = 0
  /\ Ctx = << >> /\ InnerCache = {} /\ heap = << >>
  /\ tests = << >> /\ ti = 0 /\ testees = << >> /\ ei = 0
  /\ points = << >> /\ pi = 0 /\ ObjectFiles = << >> /\ Mutant = NullObj
  /\ runLog = << >> /\ events = << >>

(* --------------------------- module loader ----------------------------- *)
createTesterModule == [kind |-> "tester", path |-> "foo", body |-> << >>]

createTesteeModule(body) == [kind |-> "testee", path |-> "bar", body |-> body]

loadModuleAtPath(path, body) ==
  IF path = "foo" THEN createTesterModule
  ELSE IF path = "bar" THEN createTesteeModule(body)
  ELSE NullModule

(* ------------------------------ compiler ------------------------------- *)
Code(module) == [i \in 1..Len(module.body) |-> module.body[i].op]

\* Compiler.CompilerModule: the object of the module's current IR, or no
\* object when the IR is rejected
CompilerModule(m, module) ==
  IF \E i \in 1..Len(module.body) : module.body[i].op = "bad"
  THEN << >>
  ELSE << [module |-> m, code |-> Code(module), alive |-> TRUE] >>

(* ---------------------------- test finder ------------------------------ *)
RECURSIVE SelectKind(_, _, _)
SelectKind(ctx, kind, i) ==
  IF i > Len(ctx) THEN << >>
  ELSE (IF ctx[i].kind = kind THEN << [parent |-> i] >> ELSE << >>)
       \o SelectKind(ctx, kind, i + 1)

findTests(ctx) == SelectKind(ctx, "tester", 1)

findTestees(ctx, test) == SelectKind(ctx, "testee", 1)

RECURSIVE ScanAdd(_, _, _)
ScanAdd(m, body, i) ==
  IF i > Len(body) THEN << >>
  ELSE (IF body[i].op = "add"
        THEN << [module |-> m, index |-> i, orig |-> body[i].op,
                 loc |-> body[i].loc, kind |-> "MathAddMutator"] >>
        ELSE << >>)
       \o ScanAdd(m, body, i + 1)

findMutationPoints(ctx, testee) == ScanAdd(testee.parent, ctx[testee.parent].body, 1)

(* --------------------------- mutation point ---------------------------- *)
SetOp(ctx, m, i, o) ==
  [ctx EXCEPT ![m].body[i].op = o]

applyMutation(ctx, p) ==
  SetOp(ctx, p.module, p.index,
        IF ctx[p.module].body[p.index].ill THEN "bad" ELSE "sub")

revertMutation(ctx, p) == SetOp(ctx, p.module, p.index, p.orig)

(* ---------------------------- junk detector --------------------------- *)
\* clang::SourceRange: invalid (default constructed) or a range of a file
InvalidRange == [valid |-> FALSE, file |-> "", begin |-> 0, end |-> 0]

SourceRange(f, b, e) == [valid |-> TRUE, file |-> f, begin |-> b, end |-> e]

NoAST == [loaded |-> FALSE, files |-> {}, nodes |-> << >>]

\* the AST of the testee module's source file: one binary '+' at 1..3
TesteeAST ==
  [loaded |-> TRUE, files |-> {"bar.c"},
   nodes |-> << [opc |-> "BO_Add", range |-> SourceRange("bar.c", 1, 3)] >>]

\* ASTUnit::getLocation(file, line, column)
getLocation(file, mutantLocation) ==
  [isFileID |-> TRUE, file |-> file, offset |-> mutantLocation.offset]

\* as locationInRange, but the end of the range is excluded
locationInRange_EndExcluded(range, location) ==
  IF location.isFileID
  THEN LET sameSourceFile == location.file = range.file
           inRange == location.offset >= range.begin
                      /\ location.offset < range.end
       IN sameSourceFile /\ inRange
  ELSE FALSE

locationInRange(range, location) ==
  IF location.isFileID
  THEN LET sameSourceFile == location.file = range.file
           inRange == location.offset >= range.begin
                      /\ location.offset <= range.end
       IN sameSourceFile /\ inRange
  ELSE FALSE

\* as smallestSourceRange, but the later range wins a tie
smallestSourceRange_TieSecond(first, second) ==
  IF ~first.valid THEN second
  ELSE IF ~second.valid THEN first
  ELSE LET firstLength == first.end - first.begin
           secondLength == second.end - second.begin
       IN IF firstLength < secondLength THEN first ELSE second

smallestSourceRange(first, second) ==
  IF ~first.valid THEN second
  ELSE IF ~second.valid THEN first
  ELSE LET firstLength == first.end - first.begin
           secondLength == second.end - second.begin
       IN IF firstLength < secondLength THEN first
          ELSE IF secondLength < firstLength THEN second
          ELSE first

\* SearchInstructionVisitor::visitRangeWithLocation
visitRangeWithLocation(sourceRange, range, location) ==
  IF locationInRange(range, location)
  THEN smallestSourceRange(sourceRange, range)
  ELSE sourceRange

\* node kinds the visitor of each mutator kind hands to the search visitor
VisitedOpcodes(kind) ==
  CASE kind = "ConditionalsBoundaryMutator" ->
         {"BO_LT", "BO_GT", "BO_LE", "BO_GE"}
    [] kind = "MathAddMutator" ->
         {"BO_Add", "BO_AddAssign", "UO_PostInc", "UO_PreInc"}
    [] kind = "MathSubMutator" ->
         {"BO_Sub", "BO_SubAssign", "UO_PostDec", "UO_PreDec"}
    [] OTHER -> {}

\* TraverseDecl: the range the search visitor holds after nodes i..
RECURSIVE TraverseDecl(_, _, _, _, _)
TraverseDecl(nodes, opcs, location, i, sourceRange) ==
  IF i > Len(nodes) THEN sourceRange
  ELSE TraverseDecl(nodes, opcs, location, i + 1,
         IF nodes[i].opc \in opcs
         THEN visitRangeWithLocation(sourceRange, nodes[i].range, location)
         ELSE sourceRange)

findFileEntry(ast, point) ==
  IF point.loc.filePath \in ast.files THEN point.loc.filePath ELSE ""

\* isJunkBoundaryConditional, isJunkMathAdd, isJunkMathSub
isJunkKind(point, ast, kind) ==
  IF ~ast.loaded THEN "assert"
  ELSE LET file == findFileEntry(ast, point)
       IN IF file = "" THEN "assert"
          ELSE LET location == getLocation(file, point.loc)
                   found == TraverseDecl(ast.nodes, VisitedOpcodes(kind),
                                         location, 1, InvalidRange)
               IN IF found.valid THEN "false" ELSE "true"

\* as isJunk, but the switch on the mutator kind comes before the null test
isJunk_KindFirst(point, ast) ==
  IF point.kind \in {"ConditionalsBoundaryMutator", "MathAddMutator",
                     "MathSubMutator"}
  THEN isJunkKind(point, ast, point.kind)
  ELSE IF point.loc.isNull THEN "true" ELSE "false"

\* CXXJunkDetector::isJunk: "true", "false", or "assert" when an assertion
\* of the detector fails
isJunk(point, ast) ==
  IF point.loc.isNull THEN "true"
  ELSE IF point.kind \in {"ConditionalsBoundaryMutator", "MathAddMutator",
                          "MathSubMutator"}
       THEN isJunkKind(point, ast, point.kind)
       ELSE "false"

(* ----------------------------- the cache ------------------------------- *)
\* std::map::insert: no effect when the key is present
MapInsert(cache, k, v) ==
  IF \E e \in cache : e.first = k THEN cache
  ELSE cache \cup {[first |-> k, second |-> v]}

RECURSIVE AllButOneFrom(_, _, _, _)
AllButOneFrom(cache, One, k, n) ==
  IF k > n THEN << >>
  ELSE (IF k # One /\ \E e \in cache : e.first = k
        THEN << (CHOOSE e \in cache : e.first = k).second >>
        ELSE << >>)
       \o AllButOneFrom(cache, One, k + 1, n)

\* Driver::AllButOne: the cached object of every entry whose key is not One
AllButOne(cache, One, n) == AllButOneFrom(cache, One, 1, n)

(* ------------------------------ Driver::Run ---------------------------- *)
Init ==
  /\ paths \in PathLists
  /\ factory \in Bodies
  /\ pc = "load"
  /\ pathIdx = 1
  /\ Ctx = << >>
  /\ InnerCache = {}
  /\ heap = << >>
  /\ tests = << >> /\ ti = 0
  /\ testees = << >> /\ ei = 0
  /\ points = << >> /\ pi = 0
  /\ ObjectFiles = << >>
  /\ Mutant = NullObj
  /\ runLog = << >>
  /\ events = << >>
  /\ ThreadsOff /\ SearchOff /\ ArgsOff

\* one iteration of the load loop, the module was produced
LoadModule ==
  /\ pc = "load" /\ pathIdx <= Len(paths)
  /\ LET OwnedModule == loadModuleAtPath(paths[pathIdx], factory)
         Module == Len(Ctx) + 1
     IN /\ OwnedModule # NullModule
        /\ heap' = heap \o CompilerModule(Module, OwnedModule)
        /\ InnerCache' = MapInsert(InnerCache, Module, Len(heap'))
        /\ Ctx' = Append(Ctx, OwnedModule)
  /\ pathIdx' = pathIdx + 1
  /\ UNCHANGED jvars
  /\ UNCHANGED << paths, factory, pc, tests, ti, testees, ei, points, pi,
                  ObjectFiles, Mutant, runLog, events >>

\* as LoadFails, but the path that does not load is skipped
LoadFails_Skipped ==
  /\ pc = "load" /\ pathIdx <= Len(paths)
  /\ loadModuleAtPath(paths[pathIdx], factory) = NullModule
  /\ pathIdx' = pathIdx + 1
  /\ UNCHANGED jvars
  /\ UNCHANGED << paths, factory, pc, Ctx, InnerCache, heap, tests, ti,
                  testees, ei, points, pi, ObjectFiles, Mutant, runLog, events >>

\* one iteration of the load loop, assert(OwnedModule) fails
LoadFails ==
  /\ pc = "load" /\ pathIdx <= Len(paths)
  /\ loadModuleAtPath(paths[pathIdx], factory) = NullModule
  /\ pc' = "aborted"
  /\ UNCHANGED jvars
  /\ UNCHANGED << paths, factory, pathIdx, Ctx, InnerCache, heap, tests, ti,
                  testees, ei, points, pi, ObjectFiles, Mutant, runLog, events >>

\* the load loop is over: TestFinder.findTests()
FindTests ==
  /\ pc = "load" /\ pathIdx > Len(paths)
  /\ tests' = findTests(Ctx)
  /\ ti' = 1
  /\ pc' = "test"
  /\ UNCHANGED jvars
  /\ UNCHANGED << paths, factory, pathIdx, Ctx, InnerCache, heap, testees, ei,
                  points, pi, ObjectFiles, Mutant, runLog, events >>

NextTest ==
  /\ pc = "test" /\ ti <= Len(tests)
  /\ testees' = findTestees(Ctx, tests[ti])
  /\ ei' = 1
  /\ pc' = "testee"
  /\ UNCHANGED jvars
  /\ UNCHANGED << paths, factory, pathIdx, Ctx, InnerCache, heap, tests, ti,
                  points, pi, ObjectFiles, Mutant, runLog, events >>

Finish ==
  /\ pc = "test" /\ ti > Len(tests)
  /\ pc' = "done"
  /\ UNCHANGED jvars
  /\ UNCHANGED << paths, factory, pathIdx, Ctx, InnerCache, heap, tests, ti,
                  testees, ei, points, pi, ObjectFiles, Mutant, runLog, events >>

NextTestee ==
  /\ pc = "testee" /\ ei <= Len(testees)
  /\ ObjectFiles' = AllButOne(InnerCache, testees[ei].parent, Len(Ctx))
  /\ points' = findMutationPoints(Ctx, testees[ei])
  /\ pi' = 1
  /\ pc' = "point"
  /\ UNCHANGED jvars
  /\ UNCHANGED << paths, factory, pathIdx, Ctx, InnerCache, heap, tests, ti,
                  testees, ei, Mutant, runLog, events >>

EndTestees ==
  /\ pc = "testee" /\ ei > Len(testees)
  /\ ti' = ti + 1
  /\ pc' = "test"
  /\ UNCHANGED jvars
  /\ UNCHANGED << paths, factory, pathIdx, Ctx, InnerCache, heap, tests,
                  testees, ei, points, pi, ObjectFiles, Mutant, runLog, events >>

\* as ApplyMutation, but the points are taken from the back of the list
ApplyMutation_Reversed ==
  /\ pc = "point" /\ pi <= Len(points)
  /\ Ctx' = applyMutation(Ctx, points[Len(points) + 1 - pi])
  /\ events' = << "apply" >>
  /\ pc' = "compile"
  /\ UNCHANGED jvars
  /\ UNCHANGED << paths, factory, pathIdx, InnerCache, heap, tests, ti,
                  testees, ei, points, pi, ObjectFiles, Mutant, runLog >>

ApplyMutation ==
  /\ pc = "point" /\ pi <= Len(points)
  /\ Ctx' = applyMutation(Ctx, points[pi])
  /\ events' = << "apply" >>
  /\ pc' = "compile"
  /\ UNCHANGED jvars
  /\ UNCHANGED << paths, factory, pathIdx, InnerCache, heap, tests, ti,
                  testees, ei, points, pi, ObjectFiles, Mutant, runLog >>

EndPoints ==
  /\ pc = "point" /\ pi > Len(points)
  /\ ei' = ei + 1
  /\ pc' = "testee"
  /\ UNCHANGED jvars
  /\ UNCHANGED << paths, factory, pathIdx, Ctx, InnerCache, heap, tests, ti,
                  testees, points, pi, ObjectFiles, Mutant, runLog, events >>

\* as CompileMutant, but the test is run next, without the revert
CompileMutant_NoRevert ==
  /\ pc = "compile"
  /\ LET m == testees[ei].parent
         obj == CompilerModule(m, Ctx[m])
     IN /\ heap' = heap \o obj
        /\ Mutant' = IF obj = << >> THEN NullObj ELSE Len(heap')
  /\ ObjectFiles' = Append(ObjectFiles, Mutant')
  /\ events' = Append(events, "compile")
  /\ pc' = "run"
  /\ UNCHANGED jvars
  /\ UNCHANGED << paths, factory, pathIdx, Ctx, InnerCache, tests, ti,
                  testees, ei, points, pi, runLog >>

\* as CompileMutant, but the compiled object replaces the cache entry
CompileMutant_Cached ==
  /\ pc = "compile"
  /\ LET m == testees[ei].parent
         obj == CompilerModule(m, Ctx[m])
     IN /\ heap' = heap \o obj
        /\ Mutant' = IF obj = << >> THEN NullObj ELSE Len(heap')
        /\ InnerCache' = {e \in InnerCache : e.first # m}
                           \cup {[first |-> m, second |-> Mutant']}
  /\ ObjectFiles' = Append(ObjectFiles, Mutant')
  /\ events' = Append(events, "compile")
  /\ pc' = "revert"
  /\ UNCHANGED jvars
  /\ UNCHANGED << paths, factory, pathIdx, Ctx, tests, ti,
                  testees, ei, points, pi, runLog >>

\* Compiler.CompilerModule(Testee->getParent()) and ObjectFiles.push_back
CompileMutant ==
  /\ pc = "compile"
  /\ LET m == testees[ei].parent
         obj == CompilerModule(m, Ctx[m])
     IN /\ heap' = heap \o obj
        /\ Mutant' = IF obj = << >> THEN NullObj ELSE Len(heap')
  /\ ObjectFiles' = Append(ObjectFiles, Mutant')
  /\ events' = Append(events, "compile")
  /\ pc' = "revert"
  /\ UNCHANGED jvars
  /\ UNCHANGED << paths, factory, pathIdx, Ctx, InnerCache, tests, ti,
                  testees, ei, points, pi, runLog >>

\* as RevertMutation, but the IR is left as it is
RevertMutation_Skipped ==
  /\ pc = "revert"
  /\ events' = Append(events, "revert")
  /\ pc' = "run"
  /\ UNCHANGED jvars
  /\ UNCHANGED << paths, factory, pathIdx, Ctx, InnerCache, heap, tests, ti,
                  testees, ei, points, pi, ObjectFiles, Mutant, runLog >>

RevertMutation ==
  /\ pc = "revert"
  /\ Ctx' = revertMutation(Ctx, points[pi])
  /\ events' = Append(events, "revert")
  /\ pc' = "run"
  /\ UNCHANGED jvars
  /\ UNCHANGED << paths, factory, pathIdx, InnerCache, heap, tests, ti,
                  testees, ei, points, pi, ObjectFiles, Mutant, runLog >>

\* Runner.runTest(Test, ObjectFiles), then the end of the loop body, where
\* Mutant goes out of scope and its object file is freed
RunTest ==
  /\ pc = "run"
  /\ runLog' = Append(runLog,
        [test |-> ti, testee |-> ei, point |-> points[pi],
         objects |-> ObjectFiles, mutant |-> Mutant,
         dead |-> {o \in Range(ObjectFiles) : o # NullObj /\ ~heap[o].alive},
         ir |-> Code(Ctx[testees[ei].parent])])
  /\ heap' = IF Mutant = NullObj THEN heap
             ELSE [heap EXCEPT ![Mutant].alive = FALSE]
  /\ Mutant' = NullObj
  /\ events' = Append(events, "run")
  /\ pi' = pi + 1
  /\ pc' = "point"
  /\ UNCHANGED jvars
  /\ UNCHANGED << paths, factory, pathIdx, Ctx, InnerCache, tests, ti,
                  testees, ei, points, ObjectFiles >>

\* Runner.runTest(Test, ObjectFiles) when the vector holds a pointer to an
\* object file that was freed: the runner reads freed memory, and the run
\* may end there
RunTestCrashes ==
  /\ pc = "run"
  /\ \E o \in Range(ObjectFiles) : o # NullObj /\ ~heap[o].alive
  /\ pc' = "crashed"
  /\ UNCHANGED jvars
  /\ UNCHANGED << paths, factory, pathIdx, Ctx, InnerCache, heap, tests, ti,
                  testees, ei, points, pi, ObjectFiles, Mutant, runLog, events >>

Next ==
  \/ LoadModule \/ LoadFails \/ FindTests
  \/ NextTest \/ Finish
  \/ NextTestee \/ EndTestees
  \/ ApplyMutation \/ EndPoints
  \/ CompileMutant \/ RevertMutation \/ RunTest \/ RunTestCrashes

Spec == Init /\ [][Next]_vars


(* ======================= properties of Driver::Run ===================== *)
\* the modules as the loader produced them
BaselineCtx == [m \in 1..Len(Ctx) |-> loadModuleAtPath(Ctx[m].path, factory)]

AllBaseline == Ctx = BaselineCtx

\* the instructions whose opcode differs from the loaded module's
AppliedSet ==
  {mi \in UNION {{<< m, i >> : i \in 1..Len(Ctx[m].body)} : m \in 1..Len(Ctx)} :
     Ctx[mi[1]].body[mi[2]].op # BaselineCtx[mi[1]].body[mi[2]].op}

\* what Driver::Run hands back: it returns void and keeps no result
RunResults == << >>

CachedExcept(One) == {e.second : e \in {c \in InnerCache : c.first # One}}

\* C1: after the processing of a (test, testee, mutation point) triple
\* completes, the IR of every module equals the IR the module was loaded
\* with, after any number of processed points.
C1_IRRestored ==
  pc \in {"point", "testee", "test", "done"} => AllBaseline

C1_Witness ==
  /\ pc = "point" /\ pi = 3 /\ Len(runLog) >= 2
  /\ AllBaseline

\* C2: at every call of the runner the object set is exactly the cached
\* objects of the modules other than the testee's parent plus the one object
\* compiled for the current point, and nothing else.
C2_ObjectSetExact ==
  \A k \in 1..Len(runLog) :
    LET e == runLog[k]
        expected == CachedExcept(e.point.module) \cup {e.mutant}
    IN /\ Range(e.objects) = expected
       /\ Len(e.objects) = Cardinality(expected)

C4_OnePointAtATime ==
  /\ Cardinality(AppliedSet) <= 1
  /\ pc \in {"compile", "revert"} =>
       AppliedSet = {<< points[pi].module, points[pi].index >>}
  /\ pc \notin {"compile", "revert"} => AppliedSet = {}
  /\ pc \in {"point", "compile", "revert", "run"} =>
       LET IsCurrent(e) == e.test = ti /\ e.testee = ei
           cur == SelectSeq(runLog, IsCurrent)
       IN /\ points = findMutationPoints(BaselineCtx, testees[ei])
          /\ [k \in 1..Len(cur) |-> cur[k].point]
               = SubSeq(points, 1, pi - 1)
  /\ (pc = "revert" /\ Mutant # NullObj) =>
       heap[Mutant].code
         = Code(applyMutation(BaselineCtx, points[pi])[points[pi].module])

C4_Witness ==
  /\ pc = "revert" /\ pi = 2 /\ Mutant # NullObj
  /\ AppliedSet = {<< points[2].module, points[2].index >>}

\* C5: once the load loop has completed the cache holds exactly one object
\* per loaded module, compiled from the module as loaded, and from then on
\* no entry is added, removed or replaced.
LoadLoopDone ==
  \/ pc \notin {"load", "aborted"}
  \/ pc = "load" /\ pathIdx > Len(paths)

CacheExact ==
  /\ Cardinality(InnerCache) = Len(Ctx)
  /\ \A m \in 1..Len(Ctx) :
       \E e \in InnerCache :
         /\ e.first = m
         /\ e.second \in 1..Len(heap)
         /\ heap[e.second] = [module |-> m, code |-> Code(BaselineCtx[m]),
                              alive |-> TRUE]

C5_CacheStable ==
  /\ [](LoadLoopDone => CacheExact)
  /\ [][LoadLoopDone =>
          /\ InnerCache' = InnerCache
          /\ \A e \in InnerCache : heap'[e.second] = heap[e.second]]_vars

C5_Witness ==
  /\ pc = "done" /\ Len(runLog) >= 2
  /\ Cardinality(InnerCache) >= 2
  /\ \E k \in 1..Len(runLog) : runLog[k].mutant # NullObj

\* C6: every test is run exactly once against the baseline object set (the
\* cached object of every module), before any mutant of that test is run.
IsBaselineRun(e) == Range(e.objects) = CachedExcept(0)

C6_BaselineRunOnce ==
  /\ \A t \in 1..Len(tests) :
       (ti > t \/ pc = "done") =>
         Cardinality({k \in 1..Len(runLog) :
                        runLog[k].test = t /\ IsBaselineRun(runLog[k])}) = 1
  /\ \A k \in 1..Len(runLog) :
       ~IsBaselineRun(runLog[k]) =>
         \E j \in 1..(k - 1) :
           runLog[j].test = runLog[k].test /\ IsBaselineRun(runLog[j])

\* C7: when the run finishes there is one Test Result per test found, in
\* discovery order, each with one Mutation Result per point processed for
\* that test, in processing order.
C7_OneResultPerTest ==
  pc = "done" =>
    /\ Len(RunResults) = Len(tests)
    /\ \A t \in 1..Len(tests) :
         LET IsOfTest(e) == e.test = t
             runs == SelectSeq(runLog, IsOfTest)
         IN /\ RunResults[t].test = tests[t]
            /\ [k \in 1..Len(runs) |-> runs[k].point]
                 = [k \in 1..Len(RunResults[t].mutants) |->
                      RunResults[t].mutants[k].point]

\* C8: no point the junk detector classifies as junk is applied, compiled
\* or run.
C8_NoJunkProcessed ==
  /\ pc \in {"compile", "revert", "run"} =>
       isJunk(points[pi], TesteeAST) # "true"
  /\ \A k \in 1..Len(runLog) : isJunk(runLog[k].point, TesteeAST) # "true"

\* C9: a point whose recompile fails gets an Invalid result recorded, is
\* reverted, and the remaining points are processed.
C9_InvalidRecorded ==
  \A k \in 1..Len(runLog) :
    runLog[k].mutant = NullObj =>
      /\ runLog[k].ir = Code(BaselineCtx[runLog[k].point.module])
      /\ \E t \in 1..Len(RunResults) :
           \E j \in 1..Len(RunResults[t].mutants) :
             /\ RunResults[t].mutants[j].point = runLog[k].point
             /\ RunResults[t].mutants[j].status = "Invalid"

\* C10: when the loader produces no module for some configured path the run
\* aborts in the load loop: no test is discovered or run and no mutation
\* point is applied.
SomePathFails ==
  \E i \in 1..Len(paths) : loadModuleAtPath(paths[i], factory) = NullModule

C10_LoadFailureAborts ==
  SomePathFails =>
    /\ pc \in {"load", "aborted"}
    /\ pathIdx <= Len(paths)
    /\ tests = << >> /\ ti = 0
    /\ runLog = << >> /\ events = << >>
    /\ AllBaseline

C10_Witness ==
  /\ pc = "aborted"
  /\ Len(Ctx) = 2
  /\ \E m \in 1..Len(Ctx) : Ctx[m].kind = "tester"
  /\ \E m \in 1..Len(Ctx) :
       /\ Ctx[m].kind = "testee"
       /\ Len(findMutationPoints(Ctx, [parent |-> m])) > 0


\* C18: when every configured path loads, the run ends normally (no failed
\* assertion, no crash) and the runner has been invoked exactly once for
\* each (test, testee, mutation point) triple.
AllPathsLoad ==
  \A i \in 1..Len(paths) : loadModuleAtPath(paths[i], factory) # NullModule

Triples ==
  {<< t, e, p >> \in (1..Len(tests)) \X (1..Len(Ctx)) \X (1..MaxInstr + 1) :
     /\ e <= Len(findTestees(BaselineCtx, tests[t]))
     /\ p <= Len(findMutationPoints(BaselineCtx,
                                    findTestees(BaselineCtx, tests[t])[e]))}

C18_RunCompletes ==
  AllPathsLoad =>
    /\ pc \notin {"aborted", "crashed"}
    /\ pc = "done" =>
         /\ Len(runLog) = Cardinality(Triples)
         /\ \A tep \in Triples :
              Cardinality({k \in 1..Len(runLog) :
                /\ runLog[k].test = tep[1]
                /\ runLog[k].testee = tep[2]
                /\ runLog[k].point =
                     findMutationPoints(BaselineCtx,
                       findTestees(BaselineCtx, tests[tep[1]])[tep[2]])[tep[3]]})
                = 1

\* C19: every pointer in the vector handed to runTest is a cached baseline
\* object or the object compiled in the current iteration, and refers to an
\* object that is alive; no pointer to the object of an earlier iteration
\* is passed.
C19_ObjectsAlive ==
  pc = "run" =>
    \A o \in Range(ObjectFiles) :
      /\ o \in CachedExcept(0) \cup {Mutant}
      /\ o # NullObj => heap[o].alive


(* =================== one call of isJunk on a given AST ================= *)
MaxNodes == 3     \* most nodes of an AST

JunkKinds ==
  {"ConditionalsBoundaryMutator", "MathAddMutator", "MathSubMutator"}

MutatorKinds == JunkKinds \cup {"NegateConditionMutator"}

Node(o, f, b, e) == [opc |-> o, range |-> SourceRange(f, b, e)]

NodeChoices ==
  { Node("BO_LT", "a.c", 1, 3),
    Node("BO_EQ", "a.c", 1, 3),
    Node("BO_Add", "a.c", 1, 3),
    Node("BO_AddAssign", "a.c", 2, 4),
    Node("UO_PostInc", "a.c", 3, 3),
    Node("UO_Minus", "a.c", 1, 3),
    Node("BO_Sub", "h.h", 1, 3) }

\* the ASTs a load can yield: no AST, or nodes lying in the AST's files
SearchASTs ==
  {NoAST} \cup
  {a \in [loaded : {TRUE}, files : {{"a.c"}, {"a.c", "h.h"}},
          nodes : SeqsUpTo(NodeChoices, MaxNodes)] :
     \A i \in 1..Len(a.nodes) : a.nodes[i].range.file \in a.files}

SearchLocs ==
  {NullLoc, Loc("a.c", 1), Loc("a.c", 3), Loc("a.c", 4), Loc("h.h", 2),
   Loc("x.c", 1)}

Point(l, k, f, b) == [loc |-> l, kind |-> k, srcFile |-> f, isInstr |-> b]

SearchPoints == {Point(l, k, "a.c", TRUE) : l \in SearchLocs, k \in MutatorKinds}

\* the range the search visitor holds when isJunk has traversed the AST
foundRange(point, ast) ==
  IF isJunk(point, ast) \in {"true", "false"}
     /\ ~point.loc.isNull /\ point.kind \in JunkKinds
  THEN TraverseDecl(ast.nodes, VisitedOpcodes(point.kind),
                    getLocation(findFileEntry(ast, point), point.loc),
                    1, InvalidRange)
  ELSE InvalidRange

InitSearch ==
  /\ DriverOff /\ ThreadsOff /\ ArgsOff
  /\ spoint \in SearchPoints
  /\ sast \in SearchASTs
  /\ sres = "none"
  /\ sRange = InvalidRange

CallIsJunk ==
  /\ sres = "none"
  /\ sres' = isJunk(spoint, sast)
  /\ sRange' = foundRange(spoint, sast)
  /\ UNCHANGED << spoint, sast >>
  /\ UNCHANGED << vars, tvars, avars >>

NextSearch == CallIsJunk

SpecSearch == InitSearch /\ [][NextSearch]_allvars

Searched ==
  /\ sres \notin {"off", "none"}
  /\ ~spoint.loc.isNull
  /\ spoint.kind \in JunkKinds

\* the node kinds the claim names for each operator kind
ClaimSelects(kind, opc) ==
  \/ kind = "ConditionalsBoundaryMutator"
       /\ opc \in {"BO_LT", "BO_GT", "BO_LE", "BO_GE"}
  \/ kind = "MathAddMutator"
       /\ opc \in {"BO_Add", "BO_AddAssign", "UO_PreInc", "UO_PostInc"}
  \/ kind = "MathSubMutator"
       /\ opc \in {"BO_Sub", "BO_SubAssign", "UO_PreDec", "UO_PostDec"}

Encloses(range, loc) ==
  /\ range.file = loc.filePath
  /\ range.begin <= loc.offset
  /\ loc.offset <= range.end

\* C12: for a point with a source location and kind ConditionalsBoundary,
\* MathAdd or MathSub, isJunk returns false exactly when the AST has a node
\* of the kinds selected for that operator whose range is in the point's
\* file and contains the point's position, both ends included.
C12_NotJunkIffEnclosed ==
  Searched =>
    ((sres = "false") <=>
       \E i \in 1..Len(sast.nodes) :
         /\ ClaimSelects(spoint.kind, sast.nodes[i].opc)
         /\ Encloses(sast.nodes[i].range, spoint.loc))

C12_Witness ==
  /\ Searched /\ sres = "false"
  /\ spoint.kind = "ConditionalsBoundaryMutator"
  /\ spoint.loc.offset = 3
  /\ Len(sast.nodes) = 3
  /\ \A i \in 1..3 :
       ClaimSelects(spoint.kind, sast.nodes[i].opc) => sast.nodes[i].range.end = 3

\* C14: when the loaded AST has no FileEntry named as the point's path,
\* isJunk returns true.
C14_MissingFileIsJunk ==
  (Searched /\ sast.loaded /\ spoint.loc.filePath \notin sast.files)
    => sres = "true"

\* the ranges handed to the search visitor, in traversal order
RECURSIVE VisitedRanges(_, _, _)
VisitedRanges(nodes, opcs, i) ==
  IF i > Len(nodes) THEN << >>
  ELSE (IF nodes[i].opc \in opcs THEN << nodes[i].range >> ELSE << >>)
       \o VisitedRanges(nodes, opcs, i + 1)

\* C16: after the visitor has visited a sequence of ranges it retains the
\* range of smallest length among those that contain the point, the first
\* visited among equals, and it retains none iff none contains the point.
C16_SmallestFirst ==
  (Searched /\ sres \in {"true", "false"}) =>
    LET vis == VisitedRanges(sast.nodes, VisitedOpcodes(spoint.kind), 1)
        cont == {i \in 1..Len(vis) : Encloses(vis[i], spoint.loc)}
        len(i) == vis[i].end - vis[i].begin
    IN /\ sRange.valid <=> cont # {}
       /\ cont # {} =>
            \E j \in cont :
              /\ sRange = vis[j]
              /\ \A i \in cont : len(j) <= len(i)
              /\ \A i \in cont : len(i) = len(j) => j <= i

\* two visited ranges tie for the smallest length
C16_Witness ==
  /\ Searched /\ sres = "false"
  /\ LET vis == VisitedRanges(sast.nodes, VisitedOpcodes(spoint.kind), 1)
     IN /\ Len(vis) = 2
        /\ \A i \in 1..2 : Encloses(vis[i], spoint.loc)
        /\ vis[1] # vis[2]
        /\ vis[1].end - vis[1].begin = vis[2].end - vis[2].begin
        /\ sRange = vis[1]


(* ===================== the argument loop of findAST ==================== *)
MaxArgs == 3      \* longest compile command

ArgNames == {"-c", "-o", "f.cpp"}

ArgLists == SeqsUpTo(ArgNames, MaxArgs)

SourceFile == "a.c"

OtherFlags == << "-o" >>

Cdb(c, p, n, f) == [compdb |-> c, byPath |-> p, byName |-> n, flags |-> f]

\* no database; a command by path; a command by file name only; a database
\* without a command for the file; two commands for the file
CdbChoices ==
  UNION {{ Cdb(FALSE, << >>, << >>, l),
           Cdb(TRUE, << l >>, << >>, OtherFlags),
           Cdb(TRUE, << >>, << l >>, OtherFlags),
           Cdb(TRUE, << >>, << >>, l),
           Cdb(TRUE, << l, l >>, << >>, OtherFlags) } : l \in ArgLists}

\* CXXJunkDetector::commandLineArguments
commandLineArguments(cfg) ==
  IF ~cfg.compdb THEN [asserted |-> FALSE, line |-> cfg.flags]
  ELSE LET commands == IF cfg.byPath = << >> THEN cfg.byName ELSE cfg.byPath
       IN IF commands = << >> THEN [asserted |-> FALSE, line |-> cfg.flags]
          ELSE IF Len(commands) # 1 THEN [asserted |-> TRUE, line |-> << >>]
          ELSE [asserted |-> FALSE, line |-> commands[1]]

InitArgs ==
  /\ DriverOff /\ ThreadsOff /\ SearchOff
  /\ cdb \in CdbChoices
  /\ argsForFile = << >> /\ it = 0 /\ args = << >>
  /\ apc = "start"

\* args({"mull-cxx"}), commandLineArguments(sourceFile), it = begin()
ArgsBegin ==
  /\ apc = "start"
  /\ ~commandLineArguments(cdb).asserted
  /\ argsForFile' = commandLineArguments(cdb).line
  /\ args' = << "mull-cxx" >>
  /\ it' = 1
  /\ apc' = "loop"
  /\ UNCHANGED cdb
  /\ UNCHANGED << vars, tvars, svars >>

\* assert(commands.size() == 1) fails
ArgsAssert ==
  /\ apc = "start"
  /\ commandLineArguments(cdb).asserted
  /\ apc' = "assert"
  /\ UNCHANGED << cdb, argsForFile, it, args >>
  /\ UNCHANGED << vars, tvars, svars >>

\* args.push_back(it->c_str()), then it++ of the for statement
PushArg ==
  /\ apc = "loop" /\ it <= Len(argsForFile)
  /\ argsForFile[it] # "-c"
  /\ args' = Append(args, argsForFile[it])
  /\ it' = it + 1
  /\ UNCHANGED << cdb, argsForFile, apc >>
  /\ UNCHANGED << vars, tvars, svars >>

\* *it == "-c": it++, if (it != end) it++, continue, then it++ of the for
\* statement; an iterator moved beyond end() is undefined behaviour
SkipArg ==
  /\ apc = "loop" /\ it <= Len(argsForFile)
  /\ argsForFile[it] = "-c"
  /\ LET end == Len(argsForFile) + 1
         i1 == it + 1
         i2 == IF i1 # end THEN i1 + 1 ELSE i1
         i3 == i2 + 1
     IN /\ it' = i3
        /\ apc' = IF i3 > end THEN "ub" ELSE "loop"
  /\ UNCHANGED << cdb, argsForFile, args >>
  /\ UNCHANGED << vars, tvars, svars >>

\* it == end(): args.push_back(sourceFile.c_str())
EndLoop ==
  /\ apc = "loop" /\ it = Len(argsForFile) + 1
  /\ args' = Append(args, SourceFile)
  /\ apc' = "done"
  /\ UNCHANGED << cdb, argsForFile, it >>
  /\ UNCHANGED << vars, tvars, svars >>

\* outcomes of the undefined behaviour: the read beyond the vector faults
UBCrash ==
  /\ apc = "ub"
  /\ apc' = "crashed"
  /\ UNCHANGED << cdb, argsForFile, it, args >>
  /\ UNCHANGED << vars, tvars, svars >>

\* ... or what lies beyond the vector is pushed and the loop comes to an end
UBReadsOn ==
  /\ apc = "ub"
  /\ args' = args \o << "?", SourceFile >>
  /\ apc' = "done"
  /\ UNCHANGED << cdb, argsForFile, it >>
  /\ UNCHANGED << vars, tvars, svars >>

NextArgs ==
  \/ ArgsBegin \/ ArgsAssert \/ PushArg \/ SkipArg \/ EndLoop
  \/ UBCrash \/ UBReadsOn

SpecArgs == InitArgs /\ [][NextArgs]_allvars

\* the list without every "-c" and the one argument following it
RECURSIVE WithoutDashC(_, _)
WithoutDashC(l, i) ==
  IF i > Len(l) THEN << >>
  ELSE IF l[i] = "-c" THEN WithoutDashC(l, i + 2)
  ELSE << l[i] >> \o WithoutDashC(l, i + 1)

\* C17: the list handed to the AST loader is "mull-cxx", the arguments of
\* the compile command in order without every "-c" and the one argument
\* following it, then the source file path (stated for the lists on which
\* the iterator stays within the list).
C17_ArgsFiltered ==
  (apc = "done" /\ it <= Len(argsForFile) + 1) =>
    args = << "mull-cxx" >> \o WithoutDashC(argsForFile, 1) \o << SourceFile >>

\* C20: for every argument list, also one that ends with "-c" or with
\* "-c <file>", the loop never moves its iterator beyond end() and comes to
\* its end.
C20_IteratorInRange ==
  /\ apc \in {"loop", "ub", "done", "crashed"} => it <= Len(argsForFile) + 1
  /\ apc \notin {"ub", "crashed"}


(* ============== concurrent calls of isJunk on one detector ============= *)
MaxThreads == 2   \* threads calling isJunk
MaxCalls == 2     \* calls each thread makes

Threads == 1..MaxThreads

SrcFiles == {"a.c", "b.c"}

\* the AST a successful load yields for a source file: one '+' at 1..3
LoadedAST(f) ==
  [loaded |-> TRUE, files |-> {f}, nodes |-> << Node("BO_Add", f, 1, 3) >>]

\* an ASTUnit pointer: identity and contents; identity 0 is nullptr
NullAST == [id |-> 0, unit |-> NoAST]

NoPoint == Point(NullLoc, "none", "", FALSE)

ThreadPoints ==
  {Point(NullLoc, k, "a.c", TRUE) : k \in MutatorKinds} \cup
  { Point(Loc("a.c", 2), "MathAddMutator", "a.c", TRUE),
    Point(Loc("b.c", 5), "MathSubMutator", "b.c", TRUE),
    Point(Loc("a.c", 2), "NegateConditionMutator", "a.c", TRUE),
    Point(Loc("a.c", 2), "MathAddMutator", "a.c", FALSE) }

\* the detector as constructed, with the default (empty) compilation flags
InitJunk ==
  /\ DriverOff /\ SearchOff /\ ArgsOff
  /\ loader \in [SrcFiles -> BOOLEAN]
  /\ astUnits = [f \in SrcFiles |-> [present |-> FALSE, ast |-> NullAST]]
  /\ mutex = 0
  /\ tpc = [t \in Threads |-> "idle"]
  /\ tpoint = [t \in Threads |-> NoPoint]
  /\ tast = [t \in Threads |-> NullAST]
  /\ tres = [t \in Threads |-> "none"]
  /\ parses = [f \in SrcFiles |-> 0]
  /\ calls = [t \in Threads |-> 0]
  /\ nextId = 1
  /\ jabort = FALSE

\* isJunk on a point that needs no AST: null location or another kind
CallReturns(t, p) ==
  /\ ~jabort /\ tpc[t] = "idle" /\ calls[t] < MaxCalls
  /\ p.loc.isNull \/ p.kind \notin JunkKinds
  /\ tpoint' = [tpoint EXCEPT ![t] = p]
  /\ tres' = [tres EXCEPT ![t] = isJunk(p, NoAST)]
  /\ calls' = [calls EXCEPT ![t] = @ + 1]
  /\ UNCHANGED << loader, astUnits, mutex, tpc, tast, parses, nextId, jabort >>
  /\ UNCHANGED << vars, svars, avars >>

\* isJunk enters isJunkBoundaryConditional / MathAdd / MathSub and findAST;
\* findAST returns nullptr at once when the value is no instruction
CallFindAST(t, p) ==
  /\ ~jabort /\ tpc[t] = "idle" /\ calls[t] < MaxCalls
  /\ ~p.loc.isNull /\ p.kind \in JunkKinds
  /\ tpoint' = [tpoint EXCEPT ![t] = p]
  /\ tres' = [tres EXCEPT ![t] = "pending"]
  /\ calls' = [calls EXCEPT ![t] = @ + 1]
  /\ tast' = [tast EXCEPT ![t] = NullAST]
  /\ tpc' = [tpc EXCEPT ![t] = IF p.isInstr THEN "lock" ELSE "search"]
  /\ UNCHANGED << loader, astUnits, mutex, parses, nextId, jabort >>
  /\ UNCHANGED << vars, svars, avars >>

\* as Lock, but the thread does not wait for the mutex
Lock_NoWait(t) ==
  /\ ~jabort /\ tpc[t] = "lock"
  /\ mutex' = t
  /\ tpc' = [tpc EXCEPT ![t] = "lookup"]
  /\ UNCHANGED << loader, astUnits, tpoint, tast, tres, parses, calls, nextId,
                  jabort >>
  /\ UNCHANGED << vars, svars, avars >>

\* std::lock_guard<std::mutex> guard(mutex)
Lock(t) ==
  /\ ~jabort /\ tpc[t] = "lock"
  /\ mutex = 0
  /\ mutex' = t
  /\ tpc' = [tpc EXCEPT ![t] = "lookup"]
  /\ UNCHANGED << loader, astUnits, tpoint, tast, tres, parses, calls, nextId,
                  jabort >>
  /\ UNCHANGED << vars, svars, avars >>

\* astUnits.count(sourceFile) is 1: return astUnits.at(sourceFile).get()
CacheHit(t) ==
  /\ ~jabort /\ tpc[t] = "lookup"
  /\ astUnits[tpoint[t].srcFile].present
  /\ tast' = [tast EXCEPT ![t] = astUnits[tpoint[t].srcFile].ast]
  /\ mutex' = 0
  /\ tpc' = [tpc EXCEPT ![t] = "search"]
  /\ UNCHANGED << loader, astUnits, tpoint, tres, parses, calls, nextId, jabort >>
  /\ UNCHANGED << vars, svars, avars >>

\* astUnits.count(sourceFile) is 0
CacheMiss(t) ==
  /\ ~jabort /\ tpc[t] = "lookup"
  /\ ~astUnits[tpoint[t].srcFile].present
  /\ tpc' = [tpc EXCEPT ![t] = "parse"]
  /\ UNCHANGED << loader, astUnits, mutex, tpoint, tast, tres, parses, calls,
                  nextId, jabort >>
  /\ UNCHANGED << vars, svars, avars >>

\* the arguments are assembled and ASTUnit::LoadFromCommandLine is called
Parse(t) ==
  /\ ~jabort /\ tpc[t] = "parse"
  /\ LET f == tpoint[t].srcFile
     IN /\ tast' = [tast EXCEPT ![t] =
                      IF loader[f] THEN [id |-> nextId, unit |-> LoadedAST(f)]
                      ELSE NullAST]
        /\ nextId' = IF loader[f] THEN nextId + 1 ELSE nextId
        /\ parses' = [parses EXCEPT ![f] = @ + 1]
  /\ tpc' = [tpc EXCEPT ![t] = "store"]
  /\ UNCHANGED << loader, astUnits, mutex, tpoint, tres, calls, jabort >>
  /\ UNCHANGED << vars, svars, avars >>

\* astUnits[sourceFile] = ast; return ast, which releases the guard
Store(t) ==
  /\ ~jabort /\ tpc[t] = "store"
  /\ astUnits' = [astUnits EXCEPT ![tpoint[t].srcFile] =
                    [present |-> TRUE, ast |-> tast[t]]]
  /\ mutex' = 0
  /\ tpc' = [tpc EXCEPT ![t] = "search"]
  /\ UNCHANGED << loader, tpoint, tast, tres, parses, calls, nextId, jabort >>
  /\ UNCHANGED << vars, svars, avars >>

\* findFileEntry, the assertions, the traversal, return !foundMutant()
Search(t) ==
  /\ ~jabort /\ tpc[t] = "search"
  /\ LET res == isJunk(tpoint[t], tast[t].unit)
     IN /\ tres' = [tres EXCEPT ![t] = res]
        /\ jabort' = (res = "assert")
  /\ tpc' = [tpc EXCEPT ![t] = "idle"]
  /\ UNCHANGED << loader, astUnits, mutex, tpoint, tast, parses, calls, nextId >>
  /\ UNCHANGED << vars, svars, avars >>

NextJunk ==
  \E t \in Threads :
    \/ \E p \in ThreadPoints : CallReturns(t, p)
    \/ \E p \in ThreadPoints : CallFindAST(t, p)
    \/ Lock(t) \/ CacheHit(t) \/ CacheMiss(t) \/ Parse(t) \/ Store(t)
    \/ Search(t)

SpecJunk == InitJunk /\ [][NextJunk]_allvars

\* C11: isJunk returns true for every point whose source location is null,
\* whatever its kind, and the call takes no lock, loads no AST and reads no
\* cached AST.
C11_NullIsJunk ==
  /\ [](\A t \in Threads :
          (calls[t] > 0 /\ tpoint[t].loc.isNull) =>
            tres[t] = "true" /\ tpc[t] = "idle")
  /\ [][\A t \in Threads :
          (calls'[t] # calls[t] /\ tpoint'[t].loc.isNull) =>
            /\ astUnits' = astUnits /\ parses' = parses /\ mutex' = mutex
            /\ tast' = tast]_allvars

C11_Witness ==
  \E t \in Threads :
    /\ calls[t] = 2 /\ tpc[t] = "idle"
    /\ tpoint[t].loc.isNull
    /\ tpoint[t].kind = "NegateConditionMutator"
    /\ tres[t] = "true"
    /\ \A f \in SrcFiles : parses[f] = 0

\* C13: when loading the AST of the point's source file yields no AST,
\* isJunk returns false and the run goes on, on this and on every later
\* call for a point of that file.
C13_LoadFailureNotJunk ==
  \A t \in Threads :
    (/\ calls[t] > 0 /\ tpc[t] = "idle"
     /\ ~tpoint[t].loc.isNull /\ tpoint[t].kind \in JunkKinds
     /\ tpoint[t].isInstr
     /\ astUnits[tpoint[t].srcFile].present
     /\ astUnits[tpoint[t].srcFile].ast = NullAST)
      => tres[t] = "false" /\ ~jabort

\* C15: under any interleaving the AST of a source file is parsed at most
\* once, every caller for the file gets the one cached AST, and at most one
\* thread at a time is in the code that reads or writes the cache map.
InMap(t) == tpc[t] \in {"lookup", "parse", "store"}

C15_ParsedOnce ==
  /\ [](/\ \A f \in SrcFiles : parses[f] <= 1
        /\ Cardinality({t \in Threads : InMap(t)}) <= 1
        /\ \A t \in Threads : InMap(t) => mutex = t
        /\ \A t \in Threads :
             (tpc[t] = "search" /\ tpoint[t].isInstr) =>
               /\ astUnits[tpoint[t].srcFile].present
               /\ tast[t] = astUnits[tpoint[t].srcFile].ast)
  /\ [][\A f \in SrcFiles :
          astUnits[f].present => astUnits'[f] = astUnits[f]]_allvars

C15_Witness ==
  \E t1, t2 \in Threads :
    /\ t1 # t2
    /\ tpc[t1] = "search" /\ tpc[t2] = "search"
    /\ tpoint[t1].isInstr /\ tpoint[t2].isInstr
    /\ tpoint[t1].srcFile = tpoint[t2].srcFile
    /\ tast[t1].id # 0 /\ tast[t1] = tast[t2]
    /\ parses[tpoint[t1].srcFile] = 1

====
